---- MODULE Spec2Model ----
(***************************************************************************)
(* Model of src/services/wsTradeMonitor.ts: the streaming connection to    *)
(* the market-data channel, the order-book cache it feeds, the asset       *)
(* subscription set, and the 200 ms trade poller with its per-wallet       *)
(* chains.  Every callback of the single-threaded event loop is one        *)
(* action; an async function is cut into one action per await.             *)
(***************************************************************************)
EXTENDS Integers, Sequences, FiniteSets, TLC

(* ------------------------------ bounds --------------------------------- *)
\* calls of connectWebSocket that get past the isRunning check
MaxAttempts == 3
\* PING frames recorded per socket
MaxPings == 1
\* length of the id list handed to one subscribeToAssets call by the
\* abstract caller of SpecFeed
MaxIds == 2
\* Date.now() runs over 0..MaxNow
MaxNow == 2
\* entries per ladder of a book snapshot message
MaxLadder == 2
\* entries of the changes array of a price_change message
MaxChanges == 1
\* entries of one activity response of the data API
MaxActivities == 2
\* entries of one positions response of the data API
MaxPositions == 1

(* ------------------------------ domains -------------------------------- *)
Assets == {"A", "B"}

\* sequences over S of length at most n
RECURSIVE SeqsUpTo(_, _)
SeqsUpTo(S, n) ==
    IF n = 0 THEN {<<>>}
    ELSE LET shorter == SeqsUpTo(S, n - 1)
         IN shorter \cup {Append(s, x) : s \in {t \in shorter : Len(t) = n - 1}, x \in S}

Range(s) == {s[i] : i \in 1..Len(s)}

(* ------------------------------ state ---------------------------------- *)
VARIABLES
    isRunning,          \* let isRunning
    ws,                 \* let ws: 0 is null, else an index into sockets
    sockets,            \* every WebSocket object constructed so far
    reconnectTimers,    \* pending setTimeout(connectWebSocket, ...) callbacks
    pingInterval,       \* let pingInterval: TRUE when the handle is not null
    pingTimers,         \* setInterval timers that have not been cleared
    connectAttempts,    \* "Connecting to WebSocket" lines logged so far
    subscribedAssets,   \* let subscribedAssets: a Set, kept in insertion order
    mainPc,             \* position of wsTradeMonitor()
    orderBookCache,     \* const orderBookCache: a Map, asset id -> book
    now,                \* Date.now()
    result,             \* what the last call of an exported reader returned
    mainIdx,            \* wsTradeMonitor(): index of the wallet a startup loop is at
    isFirstRun,         \* let isFirstRun
    chain,              \* per wallet: the async callback of fastPollTradeData
    activity,           \* per wallet: the documents of its UserActivity collection
    positions           \* per wallet: the documents of its UserPosition collection

feedVars == <<isRunning, ws, sockets, reconnectTimers, pingInterval, pingTimers,
              connectAttempts, subscribedAssets, mainPc>>

bookVars == <<orderBookCache, now, result>>

pollVars == <<mainIdx, isFirstRun, chain, activity, positions>>

vars == <<isRunning, ws, sockets, reconnectTimers, pingInterval, pingTimers,
          connectAttempts, subscribedAssets, mainPc, orderBookCache, now, result,
          mainIdx, isFirstRun, chain, activity, positions>>

(* --------------------------- socket helpers ---------------------------- *)
\* the frames the program wrote: a subscription or the literal text PING
SubscribeMsg(ids) == [type |-> "market", assets_ids |-> ids]
PingMsg == [type |-> "PING", assets_ids |-> <<>>]

NewSocket == [readyState |-> "CONNECTING", outbox |-> <<>>]

\* ws.send(msg) on socket i
Send(socks, i, msg) == [socks EXCEPT ![i].outbox = Append(@, msg)]

\* ws.close(): an open or connecting socket starts closing
CloseSocket(socks, i) ==
    [socks EXCEPT ![i].readyState =
        IF @ \in {"CONNECTING", "OPEN"} THEN "CLOSING" ELSE @]

Live(s) == s.readyState \in {"CONNECTING", "OPEN"}

PingCount(s) == Cardinality({k \in 1..Len(s.outbox) : s.outbox[k].type = "PING"})

\* the asset ids written to socket s in subscription messages
SentIds(s) ==
    UNION {Range(s.outbox[k].assets_ids) : k \in 1..Len(s.outbox)}

(* ------------------------- subscribeToAssets --------------------------- *)
\* Set.has
Has(known, id) == id \in Range(known)

\* assetIds.filter((id) => !subscribedAssets.has(id)): the filter runs
\* before any id is added, so an id repeated in assetIds is kept each time
NewAssets(known, assetIds) == SelectSeq(assetIds, LAMBDA id : ~Has(known, id))

\* for (const id of newAssets) subscribedAssets.add(id)
RECURSIVE AddAll(_, _)
AddAll(known, ids) ==
    IF ids = <<>> THEN known
    ELSE AddAll(IF Has(known, Head(ids)) THEN known ELSE Append(known, Head(ids)),
                Tail(ids))

\* the known set after subscribeToAssets(assetIds)
SubscribedAfter(known, assetIds) == AddAll(known, NewAssets(known, assetIds))

\* the sockets after subscribeToAssets(assetIds): one message with newAssets
\* when ws is set and OPEN, nothing otherwise
SocketsAfterSubscribe(socks, w, known, assetIds) ==
    LET newAssets == NewAssets(known, assetIds)
    IN IF newAssets = <<>> THEN socks
       ELSE IF w # 0 /\ socks[w].readyState = "OPEN"
            THEN Send(socks, w, SubscribeMsg(newAssets))
            ELSE socks

subscribeToAssets(assetIds) ==
    /\ subscribedAssets' = SubscribedAfter(subscribedAssets, assetIds)
    /\ sockets' = SocketsAfterSubscribe(sockets, ws, subscribedAssets, assetIds)

(* -------------------------- connectWebSocket --------------------------- *)
\* mutant: connectWebSocket without its isRunning check
connectWebSocket_noRunningCheck(timers) ==
    /\ connectAttempts < MaxAttempts
    /\ connectAttempts' = connectAttempts + 1
    /\ \/ /\ sockets' = Append(sockets, NewSocket)
          /\ ws' = Len(sockets) + 1
          /\ reconnectTimers' = timers
       \/ /\ reconnectTimers' = timers + 1
          /\ UNCHANGED <<ws, sockets>>

\* connectWebSocket() with `timers` callbacks still pending around it.
\* new WebSocket(url) either returns a CONNECTING socket or throws, and the
\* catch block schedules the next attempt.
connectWebSocket(timers) ==
    IF ~isRunning
    THEN /\ reconnectTimers' = timers
         /\ UNCHANGED <<ws, sockets, connectAttempts>>
    ELSE /\ connectAttempts < MaxAttempts
         /\ connectAttempts' = connectAttempts + 1
         /\ \/ /\ sockets' = Append(sockets, NewSocket)
               /\ ws' = Len(sockets) + 1
               /\ reconnectTimers' = timers
            \/ /\ reconnectTimers' = timers + 1
               /\ UNCHANGED <<ws, sockets>>

\* wsTradeMonitor() reaches its connectWebSocket() call
Start ==
    /\ mainPc = "start"
    /\ mainPc' = "initSubs"
    /\ connectWebSocket(reconnectTimers)
    /\ UNCHANGED <<isRunning, pingInterval, pingTimers, subscribedAssets>>
    /\ UNCHANGED <<bookVars, pollVars>>

\* a setTimeout(connectWebSocket, WS_RECONNECT_DELAY_MS) callback runs
ReconnectTimerFire ==
    /\ reconnectTimers > 0
    /\ connectWebSocket(reconnectTimers - 1)
    /\ UNCHANGED <<isRunning, pingInterval, pingTimers, subscribedAssets, mainPc>>
    /\ UNCHANGED <<bookVars, pollVars>>

\* mutant: the open handler starts the heartbeat but sends no subscription
WsOpen_noSubscribe(i) ==
    /\ i \in 1..Len(sockets)
    /\ sockets[i].readyState = "CONNECTING"
    /\ sockets' = [sockets EXCEPT ![i].readyState = "OPEN"]
    /\ pingTimers' = (IF pingInterval THEN pingTimers - 1 ELSE pingTimers) + 1
    /\ pingInterval' = TRUE
    /\ UNCHANGED <<isRunning, ws, reconnectTimers, connectAttempts,
                   subscribedAssets, mainPc, bookVars, pollVars>>

\* ws.on('open'): subscribe to the whole known set, start the heartbeat.
\* The handler writes through the module variable ws (ws!.send); were it
\* null the send would throw and the heartbeat would not be started.
WsOpen(i) ==
    /\ i \in 1..Len(sockets)
    /\ sockets[i].readyState = "CONNECTING"
    /\ LET opened == [sockets EXCEPT ![i].readyState = "OPEN"]
           threw == Len(subscribedAssets) > 0 /\ ws = 0
       IN /\ sockets' = IF Len(subscribedAssets) > 0 /\ ws # 0
                        THEN Send(opened, ws, SubscribeMsg(subscribedAssets))
                        ELSE opened
          /\ pingTimers' = IF threw THEN pingTimers
                           ELSE (IF pingInterval THEN pingTimers - 1 ELSE pingTimers) + 1
          /\ pingInterval' = IF threw THEN pingInterval ELSE TRUE
    /\ UNCHANGED <<isRunning, ws, reconnectTimers, connectAttempts,
                   subscribedAssets, mainPc>>
    /\ UNCHANGED <<bookVars, pollVars>>

\* the setInterval callback: PING when ws is set and OPEN
PingTick ==
    /\ pingTimers > 0
    /\ ws # 0
    /\ sockets[ws].readyState = "OPEN"
    /\ PingCount(sockets[ws]) < MaxPings
    /\ sockets' = Send(sockets, ws, PingMsg)
    /\ UNCHANGED <<isRunning, ws, reconnectTimers, pingInterval, pingTimers,
                   connectAttempts, subscribedAssets, mainPc>>
    /\ UNCHANGED <<bookVars, pollVars>>

\* ws.on('error'): the handler only logs; the transport is then torn down
\* and 'close' follows
WsError(i) ==
    /\ i \in 1..Len(sockets)
    /\ Live(sockets[i])
    /\ sockets' = [sockets EXCEPT ![i].readyState = "CLOSING"]
    /\ UNCHANGED <<isRunning, ws, reconnectTimers, pingInterval, pingTimers,
                   connectAttempts, subscribedAssets, mainPc>>
    /\ UNCHANGED <<bookVars, pollVars>>

\* the peer starts the closing handshake: readyState CLOSING, no callback
WsPeerClose(i) ==
    /\ i \in 1..Len(sockets)
    /\ sockets[i].readyState = "OPEN"
    /\ sockets' = [sockets EXCEPT ![i].readyState = "CLOSING"]
    /\ UNCHANGED <<isRunning, ws, reconnectTimers, pingInterval, pingTimers,
                   connectAttempts, subscribedAssets, mainPc>>
    /\ UNCHANGED <<bookVars, pollVars>>

\* mutant: the close handler schedules no reconnect
WsClose_noReconnect(i) ==
    /\ i \in 1..Len(sockets)
    /\ sockets[i].readyState \in {"CONNECTING", "OPEN", "CLOSING"}
    /\ sockets' = [sockets EXCEPT ![i].readyState = "CLOSED"]
    /\ pingTimers' = IF pingInterval THEN pingTimers - 1 ELSE pingTimers
    /\ pingInterval' = FALSE
    /\ ws' = 0
    /\ UNCHANGED <<isRunning, reconnectTimers, connectAttempts, subscribedAssets,
                   mainPc, bookVars, pollVars>>

\* mutant: the close handler leaves the heartbeat running
WsClose_keepsHeartbeat(i) ==
    /\ i \in 1..Len(sockets)
    /\ sockets[i].readyState \in {"CONNECTING", "OPEN", "CLOSING"}
    /\ sockets' = [sockets EXCEPT ![i].readyState = "CLOSED"]
    /\ ws' = 0
    /\ reconnectTimers' = IF isRunning THEN reconnectTimers + 1 ELSE reconnectTimers
    /\ UNCHANGED <<isRunning, pingInterval, pingTimers, connectAttempts,
                   subscribedAssets, mainPc, bookVars, pollVars>>

\* ws.on('close'): stop the heartbeat, forget the socket, reconnect if running
WsClose(i) ==
    /\ i \in 1..Len(sockets)
    /\ sockets[i].readyState \in {"CONNECTING", "OPEN", "CLOSING"}
    /\ sockets' = [sockets EXCEPT ![i].readyState = "CLOSED"]
    /\ pingTimers' = IF pingInterval THEN pingTimers - 1 ELSE pingTimers
    /\ pingInterval' = FALSE
    /\ ws' = 0
    /\ reconnectTimers' = IF isRunning THEN reconnectTimers + 1 ELSE reconnectTimers
    /\ UNCHANGED <<isRunning, connectAttempts, subscribedAssets, mainPc>>
    /\ UNCHANGED <<bookVars, pollVars>>

\* mutant: the stop also forgets the known asset ids
stopWsTradeMonitor_clearsAssets ==
    /\ isRunning' = FALSE
    /\ sockets' = IF ws # 0 THEN CloseSocket(sockets, ws) ELSE sockets
    /\ ws' = 0
    /\ pingTimers' = IF pingInterval THEN pingTimers - 1 ELSE pingTimers
    /\ pingInterval' = FALSE
    /\ subscribedAssets' = <<>>
    /\ UNCHANGED <<reconnectTimers, connectAttempts, mainPc, bookVars, pollVars>>

\* export const stopWsTradeMonitor
stopWsTradeMonitor ==
    /\ isRunning' = FALSE
    /\ sockets' = IF ws # 0 THEN CloseSocket(sockets, ws) ELSE sockets
    /\ ws' = 0
    /\ pingTimers' = IF pingInterval THEN pingTimers - 1 ELSE pingTimers
    /\ pingInterval' = FALSE
    /\ UNCHANGED <<reconnectTimers, connectAttempts, subscribedAssets, mainPc>>
    /\ UNCHANGED <<bookVars, pollVars>>

\* some call site hands subscribeToAssets a list of asset ids
Track(assetIds) ==
    /\ mainPc # "start"
    /\ subscribeToAssets(assetIds)
    /\ UNCHANGED <<isRunning, ws, reconnectTimers, pingInterval, pingTimers,
                   connectAttempts, mainPc>>
    /\ UNCHANGED <<bookVars, pollVars>>

(* --------------------------- order-book cache -------------------------- *)
\* the asset whose book the feed reports; the handler touches only the
\* entry of the asset a message names
BookAssets == {"A"}

\* prices and sizes arrive as JSON strings
Prices == {"0.3", "0.5", ".5"}
Sizes == {"0", "10", "20"}

\* parseFloat, in hundredths
parseFloat(str) ==
    CASE str = "0.3" -> 30
      [] str = "0.5" -> 50
      [] str = ".5"  -> 50
      [] str = "0"   -> 0
      [] str = "10"  -> 1000
      [] str = "20"  -> 2000

Level(p, z) == [price |-> p, size |-> z]

\* ladders a book snapshot message may carry, in any order
SnapshotLadders == SeqsUpTo({Level(p, "10") : p \in {"0.3", "0.5"}}, MaxLadder)

\* a changes entry that is JSON null: reading change.side throws
NullChange == [side |-> "null", price |-> "null", size |-> "null"]

Changes == [side : {"BUY", "SELL"}, price : Prices, size : Sizes]

ChangeLists == SeqsUpTo(Changes \cup {NullChange}, MaxChanges)

\* Array.prototype.sort with (a, b) => parseFloat(a.price) - parseFloat(b.price):
\* stable, ascending by numeric price
InsertAscending(sorted, e) ==
    LET k == Cardinality({j \in 1..Len(sorted) :
                 parseFloat(sorted[j].price) <= parseFloat(e.price)})
    IN SubSeq(sorted, 1, k) \o <<e>> \o SubSeq(sorted, k + 1, Len(sorted))

RECURSIVE SortAscending(_)
SortAscending(s) ==
    IF Len(s) <= 1 THEN s
    ELSE InsertAscending(SortAscending(SubSeq(s, 1, Len(s) - 1)), s[Len(s)])

\* mutant: the entry already at the price is not removed first
updateOrderBookSide_keepOld(side, change) ==
    SortAscending(IF parseFloat(change.size) > 0
                  THEN Append(side, Level(change.price, change.size))
                  ELSE side)

\* const updateOrderBookSide = (side, change) => ...
updateOrderBookSide(side, change) ==
    LET filtered == SelectSeq(side, LAMBDA entry : entry.price # change.price)
        pushed == IF parseFloat(change.size) > 0
                  THEN Append(filtered, Level(change.price, change.size))
                  ELSE filtered
    IN SortAscending(pushed)

\* one iteration of for (const change of parsed.changes)
ApplyChange(book, change) ==
    IF change.side = "BUY"
    THEN [book EXCEPT !.bids = updateOrderBookSide(book.bids, change)]
    ELSE [book EXCEPT !.asks = updateOrderBookSide(book.asks, change)]

\* the loop over parsed.changes: the book reached and whether an iteration
\* threw; the iterations before the throw have already written `existing`
RECURSIVE ApplyChanges(_, _)
ApplyChanges(book, changes) ==
    IF changes = <<>> THEN [book |-> book, threw |-> FALSE]
    ELSE IF Head(changes) = NullChange THEN [book |-> book, threw |-> TRUE]
    ELSE ApplyChanges(ApplyChange(book, Head(changes)), Tail(changes))

\* Map.set
MapSet(m, k, v) == [x \in DOMAIN m \cup {k} |-> IF x = k THEN v ELSE m[x]]

\* orderBookCache.get(asset_id) || { asks: [], bids: [], timestamp: 0 }
Existing(cache, a) ==
    IF a \in DOMAIN cache THEN cache[a]
    ELSE [asks |-> <<>>, bids |-> <<>>, timestamp |-> 0]

\* ws.on('message'): the cache after the handler has run on msg at time t.
\* `existing` is the cached object itself when the asset is cached, so what
\* the handler wrote to it before a throw stays in the cache.
OnMessage(cache, t, msg) ==
    IF msg.kind # "json" \/ msg.asset_id = "" THEN cache
    ELSE IF msg.event_type = "book"
    THEN MapSet(cache, msg.asset_id,
                [asks |-> msg.asks, bids |-> msg.bids, timestamp |-> t])
    ELSE IF msg.event_type \in {"price_change", "tick_size_change"}
    THEN LET stamped == [Existing(cache, msg.asset_id) EXCEPT !.timestamp = t]
             r == ApplyChanges(stamped, msg.changes)
         IN IF ~r.threw THEN MapSet(cache, msg.asset_id, r.book)
            ELSE IF msg.asset_id \in DOMAIN cache
                 THEN MapSet(cache, msg.asset_id, r.book)
                 ELSE cache
    ELSE IF msg.event_type = "last_trade_price"
    THEN MapSet(cache, msg.asset_id,
                [Existing(cache, msg.asset_id) EXCEPT !.timestamp = t])
    ELSE cache

\* mutant: the age test admits an entry that is exactly maxAgeMs old
getCachedOrderBook_atBound(cache, t, assetId, maxAgeMs) ==
    IF assetId \in DOMAIN cache /\ t - cache[assetId].timestamp <= maxAgeMs
    THEN <<cache[assetId]>>
    ELSE <<>>

\* export const getCachedOrderBook = (assetId, maxAgeMs) => ...: <<book>> for
\* the cached book, <<>> for null
getCachedOrderBook(cache, t, assetId, maxAgeMs) ==
    IF assetId \in DOMAIN cache /\ t - cache[assetId].timestamp < maxAgeMs
    THEN <<cache[assetId]>>
    ELSE <<>>

BookMsgs ==
    {[kind |-> "json", event_type |-> "book", asset_id |-> a, asks |-> x, bids |-> y] :
        a \in BookAssets, x \in SnapshotLadders, y \in SnapshotLadders}

ChangeMsgs ==
    {[kind |-> "json", event_type |-> e, asset_id |-> a, changes |-> c] :
        e \in {"price_change", "tick_size_change"}, a \in BookAssets, c \in ChangeLists}

TradeMsgs ==
    {[kind |-> "json", event_type |-> "last_trade_price", asset_id |-> a] : a \in BookAssets}

\* PONG, text that is not JSON, JSON without asset_id, an unknown event type
IgnoredMsgs ==
    {[kind |-> "PONG"], [kind |-> "text"],
     [kind |-> "json", event_type |-> "book", asset_id |-> ""],
     [kind |-> "json", event_type |-> "other", asset_id |-> "A"]}

NoResult == [op |-> "none"]

\* what is recorded of a handled message: its type and, for a price change
\* whose loop ran to its end, the last change applied
MessageResult(msg) ==
    IF msg.kind = "json" /\ msg.asset_id # ""
       /\ msg.event_type \in {"price_change", "tick_size_change"}
       /\ msg.changes # <<>>
       /\ NullChange \notin Range(msg.changes)
    THEN [op |-> "price_change", assetId |-> msg.asset_id,
          count |-> Len(msg.changes), change |-> msg.changes[Len(msg.changes)]]
    ELSE [op |-> "message"]

\* a message arrives on socket i
WsMessage(i, msg) ==
    /\ i \in 1..Len(sockets)
    /\ sockets[i].readyState \in {"OPEN", "CLOSING"}
    /\ orderBookCache' = OnMessage(orderBookCache, now, msg)
    /\ result' = MessageResult(msg)
    /\ UNCHANGED now
    /\ UNCHANGED <<feedVars, pollVars>>

WsMessageBook == \E i \in 1..MaxAttempts, msg \in BookMsgs : WsMessage(i, msg)
WsMessagePriceChange == \E i \in 1..MaxAttempts, msg \in ChangeMsgs : WsMessage(i, msg)
WsMessageTrade == \E i \in 1..MaxAttempts, msg \in TradeMsgs : WsMessage(i, msg)
WsMessageIgnored == \E i \in 1..MaxAttempts, msg \in IgnoredMsgs : WsMessage(i, msg)

\* the messages that touch no price but "0.5": enough to fill, change and
\* refresh a cache entry
OnePrice(ladder) == \A k \in 1..Len(ladder) : ladder[k].price = "0.5"
CoarseMsgs ==
    {m \in BookMsgs : Len(m.asks) <= 1 /\ Len(m.bids) <= 1 /\ OnePrice(m.asks) /\ OnePrice(m.bids)}
    \cup {m \in ChangeMsgs : Len(m.changes) <= 1 /\ OnePrice(m.changes)}
    \cup TradeMsgs
WsMessageCoarse == \E i \in 1..MaxAttempts, msg \in CoarseMsgs : WsMessage(i, msg)

\* messages whose handling throws: text that is not JSON, and a
\* price_change whose changes array holds a null
MalformedMsgs ==
    {[kind |-> "text"]}
    \cup {m \in ChangeMsgs : m.event_type = "price_change" /\ NullChange \in Range(m.changes)}
WsMessageMalformed == \E i \in 1..MaxAttempts, msg \in MalformedMsgs : WsMessage(i, msg)

\* time passes
Tick ==
    /\ now < MaxNow
    /\ now' = now + 1
    /\ result' = NoResult
    /\ UNCHANGED orderBookCache
    /\ UNCHANGED <<feedVars, pollVars>>

\* a caller reads the cache
ReadOrderBook(assetId, maxAgeMs) ==
    /\ result' = [op |-> "getCachedOrderBook", assetId |-> assetId,
                  maxAgeMs |-> maxAgeMs,
                  value |-> getCachedOrderBook(orderBookCache, now, assetId, maxAgeMs)]
    /\ UNCHANGED <<orderBookCache, now>>
    /\ UNCHANGED <<feedVars, pollVars>>

(* ------------------------------ trade poller --------------------------- *)
\* const userModels = USER_ADDRESSES.map(...): the watched wallets, in order
WalletOrder == <<"w1", "w2">>
Wallets == Range(WalletOrder)

\* const TOO_OLD_TIMESTAMP = ENV.TOO_OLD_TIMESTAMP
TOO_OLD_TIMESTAMP == 1

TxHashes == {"T1", "T2"}

\* the asset a transaction traded
AssetOf(h) == IF h = "T1" THEN "A" ELSE "B"

\* the entries the activity endpoint may report: T1 with a timestamp just
\* below the cutoff or at it, T2 at the cutoff
ActivityEntries ==
    {[transactionHash |-> h, timestamp |-> t, asset |-> AssetOf(h)] :
        h \in TxHashes, t \in {TOO_OLD_TIMESTAMP - 1, TOO_OLD_TIMESTAMP}}
    \ {[transactionHash |-> "T2", timestamp |-> TOO_OLD_TIMESTAMP - 1, asset |-> "B"]}

ActivityResponses == SeqsUpTo(ActivityEntries, MaxActivities)

\* the entries the positions endpoint may report
PositionEntries == [asset : Assets, conditionId : {"M1"}, size : {1, 2}]

PositionResponses == SeqsUpTo(PositionEntries, MaxPositions)

\* the exchange reports a holding once: no two entries of a response share
\* their (asset, conditionId)
DistinctKeys(resp) ==
    \A j, k \in 1..Len(resp) :
        j < k => (resp[j].asset # resp[k].asset \/ resp[j].conditionId # resp[k].conditionId)

ExchangePositionResponses == {resp \in PositionResponses : DistinctKeys(resp)}

\* the activity responses of the runs that study the position store: no
\* trade, or one new trade
SyncActivityResponses ==
    {<<>>, <<[transactionHash |-> "T2", timestamp |-> TOO_OLD_TIMESTAMP, asset |-> "B"]>>}

\* the positions responses of the runs that study the trade log: one holding
PollPositionResponses ==
    SeqsUpTo({[asset |-> "A", conditionId |-> "M1", size |-> 1]}, MaxPositions)

\* a document of a UserActivity collection
ActivityDoc(e, bot, botExcutedTime) ==
    [transactionHash |-> e.transactionHash, timestamp |-> e.timestamp,
     asset |-> e.asset, bot |-> bot, botExcutedTime |-> botExcutedTime]

\* mutant: a new document is born processed
NewActivity_processed(e) == ActivityDoc(e, TRUE, 999)

\* new UserActivity({ ..., bot: false, botExcutedTime: 0 })
NewActivity(e) == ActivityDoc(e, FALSE, 0)

\* the collections as the process finds them: w1 holds one trade recorded
\* by an earlier run and not yet handled, w2 holds nothing
InitialActivity ==
    [w \in Wallets |->
        IF w = "w1"
        THEN <<ActivityDoc([transactionHash |-> "T1", timestamp |-> TOO_OLD_TIMESTAMP - 1,
                            asset |-> "A"], FALSE, 0)>>
        ELSE <<>>]

\* the state of a wallet's callback between two cycles
IdleChain ==
    [pc |-> "idle", activities |-> <<>>, i |-> 0, positions |-> <<>>, queue |-> <<>>,
     failed |-> FALSE]

\* mutant: no entry is passed over for its age
TooOld_never(e) == FALSE

\* if (activity.timestamp < TOO_OLD_TIMESTAMP) continue
TooOld(e) == e.timestamp < TOO_OLD_TIMESTAMP

\* mutant: the lookup never finds the document
findOne_missesAll(docs, h) == <<>>

\* UserActivity.findOne({ transactionHash }): the documents that match
findOne(docs, h) == SelectSeq(docs, LAMBDA d : d.transactionHash = h)

\* mutant: the error leaves the callback, whose promise rejects
Caught_rethrows(c) ==
    [c EXCEPT !.pc = "rejected", !.failed = TRUE, !.activities = <<>>, !.i = 0,
              !.positions = <<>>, !.queue = <<>>]

\* the catch block of a wallet's callback: the error is logged, the
\* callback's promise fulfils
Caught(c) ==
    [c EXCEPT !.pc = "settled", !.failed = TRUE, !.activities = <<>>, !.i = 0,
              !.positions = <<>>, !.queue = <<>>]

\* the end of a wallet's callback
Settled(c) == [c EXCEPT !.pc = "settled"]

\* if (Math.random() < 0.2): fetch the positions, or end the callback
AfterLoop(c, sampled) ==
    LET left == [c EXCEPT !.activities = <<>>, !.i = 0]
    IN IF sampled THEN [left EXCEPT !.pc = "fetchPositions"] ELSE Settled(left)

\* the for loop over activities from index i on, up to its next await: old
\* entries are passed over, the first other entry has its findOne issued
RECURSIVE ContinueLoop(_, _, _)
ContinueLoop(c, i, sampled) ==
    IF i > Len(c.activities) THEN AfterLoop(c, sampled)
    ELSE IF TooOld(c.activities[i]) THEN ContinueLoop(c, i + 1, sampled)
    ELSE [c EXCEPT !.pc = "findOne", !.i = i]

\* positions.map((p) => p.asset).filter((id) => id)
PositionAssetIds(resp) ==
    SelectSeq([k \in 1..Len(resp) |-> resp[k].asset], LAMBDA id : id # "")

\* mutant: the update never matches and a document is inserted each time
Upsert_alwaysInserts(docs, p) == Append(docs, p)

\* UserPosition.findOneAndUpdate({ asset, conditionId }, {...}, { upsert: true }):
\* the first document with the key is replaced, else one is inserted
Upsert(docs, p) ==
    LET hits == {k \in 1..Len(docs) :
                    docs[k].asset = p.asset /\ docs[k].conditionId = p.conditionId}
    IN IF hits = {} THEN Append(docs, p)
       ELSE LET first == CHOOSE k \in hits : \A j \in hits : k <= j
            IN [docs EXCEPT ![first] = p]

\* mutant: the update also rewrites a trade field
MarkProcessed_resetsTimestamp(docs) ==
    [k \in 1..Len(docs) |->
        IF docs[k].bot = FALSE
        THEN [docs[k] EXCEPT !.bot = TRUE, !.botExcutedTime = 999,
                          !.timestamp = TOO_OLD_TIMESTAMP]
        ELSE docs[k]]

\* UserActivity.updateMany({ bot: false }, { $set: { bot: true, botExcutedTime: 999 } })
MarkProcessed(docs) ==
    [k \in 1..Len(docs) |->
        IF docs[k].bot = FALSE
        THEN [docs[k] EXCEPT !.bot = TRUE, !.botExcutedTime = 999]
        ELSE docs[k]]

\* mutant: the loop test always passes
EnterLoop_ignoresStop ==
    /\ mainPc' = "polling"
    /\ chain' = [w \in Wallets |-> [IdleChain EXCEPT !.pc = "fetchActivity"]]

\* while (isRunning) { await fastPollTradeData(); ... }: the loop test and,
\* when it passes, the start of a cycle with every wallet's fetch issued
EnterLoop ==
    IF isRunning
    THEN /\ mainPc' = "polling"
         /\ chain' = [w \in Wallets |-> [IdleChain EXCEPT !.pc = "fetchActivity"]]
    ELSE /\ mainPc' = "stopped"
         /\ UNCHANGED chain

\* initTraderSubscriptions(): the positions fetch of the wallet at mainIdx
\* resolves (ok) or throws; after the last wallet the first updateMany of
\* the bulk mark is issued
InitTraderSubscription(resp, ok) ==
    /\ mainPc = "initSubs"
    /\ IF ok /\ Len(resp) > 0
       THEN subscribeToAssets(PositionAssetIds(resp))
       ELSE UNCHANGED <<subscribedAssets, sockets>>
    /\ IF mainIdx < Len(WalletOrder)
       THEN /\ mainIdx' = mainIdx + 1
            /\ UNCHANGED mainPc
       ELSE /\ mainIdx' = 1
            /\ mainPc' = "bulkMark"
    /\ UNCHANGED <<isRunning, ws, reconnectTimers, pingInterval, pingTimers,
                   connectAttempts, isFirstRun, chain, activity, positions>>
    /\ UNCHANGED bookVars

\* if (isFirstRun): the updateMany of the wallet at mainIdx resolves; after
\* the last wallet isFirstRun is cleared and the poll loop is entered
BulkMark ==
    /\ mainPc = "bulkMark"
    /\ activity' = [activity EXCEPT ![WalletOrder[mainIdx]] = MarkProcessed(@)]
    /\ IF mainIdx < Len(WalletOrder)
       THEN /\ mainIdx' = mainIdx + 1
            /\ UNCHANGED <<mainPc, isFirstRun, chain>>
       ELSE /\ mainIdx' = 1
            /\ isFirstRun' = FALSE
            /\ EnterLoop
    /\ UNCHANGED <<isRunning, ws, sockets, reconnectTimers, pingInterval, pingTimers,
                   connectAttempts, subscribedAssets, positions>>
    /\ UNCHANGED bookVars

\* an updateMany of the bulk mark rejects: wsTradeMonitor() rejects
BulkMarkFails ==
    /\ mainPc = "bulkMark"
    /\ mainPc' = "startupFailed"
    /\ UNCHANGED <<isRunning, ws, sockets, reconnectTimers, pingInterval, pingTimers,
                   connectAttempts, subscribedAssets>>
    /\ UNCHANGED <<bookVars, pollVars>>

\* what a step of wallet w's callback leaves alone
ChainFrame ==
    /\ UNCHANGED <<isRunning, ws, reconnectTimers, pingInterval, pingTimers,
                   connectAttempts, mainPc, mainIdx, isFirstRun>>
    /\ UNCHANGED bookVars

\* fetchData(activity url) resolves with resp
ActivityFetched(w, resp, sampled) ==
    /\ chain[w].pc = "fetchActivity"
    /\ chain' = [chain EXCEPT ![w] =
                    IF Len(resp) = 0 THEN Settled(@)
                    ELSE ContinueLoop([@ EXCEPT !.activities = resp], 1, sampled)]
    /\ UNCHANGED <<subscribedAssets, sockets, activity, positions>>
    /\ ChainFrame

\* mutant: the entry's asset is registered as soon as the lookup resolves
FindOneResolved_registersFirst(w, sampled) ==
    /\ chain[w].pc = "findOne"
    /\ LET c == chain[w]
           existingActivity == findOne(activity[w], c.activities[c.i].transactionHash)
       IN /\ chain' = [chain EXCEPT ![w] =
                          IF existingActivity # <<>> THEN ContinueLoop(c, c.i + 1, sampled)
                          ELSE [c EXCEPT !.pc = "save"]]
          /\ subscribeToAssets(<<c.activities[c.i].asset>>)
    /\ UNCHANGED <<activity, positions>>
    /\ ChainFrame

\* findOne resolves: a match passes the entry over, else save() is issued
FindOneResolved(w, sampled) ==
    /\ chain[w].pc = "findOne"
    /\ LET c == chain[w]
           existingActivity == findOne(activity[w], c.activities[c.i].transactionHash)
       IN chain' = [chain EXCEPT ![w] =
                       IF existingActivity # <<>> THEN ContinueLoop(c, c.i + 1, sampled)
                       ELSE [c EXCEPT !.pc = "save"]]
    /\ UNCHANGED <<subscribedAssets, sockets, activity, positions>>
    /\ ChainFrame

\* save() resolves: the document is in the collection, its asset is
\* registered, and the loop goes on
SaveResolved(w, sampled) ==
    /\ chain[w].pc = "save"
    /\ LET c == chain[w]
           e == c.activities[c.i]
       IN /\ activity' = [activity EXCEPT ![w] = Append(@, NewActivity(e))]
          /\ IF e.asset # ""
             THEN subscribeToAssets(<<e.asset>>)
             ELSE UNCHANGED <<subscribedAssets, sockets>>
          /\ chain' = [chain EXCEPT ![w] = ContinueLoop(c, c.i + 1, sampled)]
    /\ UNCHANGED positions
    /\ ChainFrame

\* fetchData(positions url) resolves with resp: its assets are registered
\* and the first upsert is issued
PositionsFetched(w, resp) ==
    /\ chain[w].pc = "fetchPositions"
    /\ IF Len(resp) > 0
       THEN /\ subscribeToAssets(PositionAssetIds(resp))
            /\ chain' = [chain EXCEPT ![w] =
                            [@ EXCEPT !.pc = "upsert", !.positions = resp, !.queue = resp]]
       ELSE /\ UNCHANGED <<subscribedAssets, sockets>>
            /\ chain' = [chain EXCEPT ![w] = Settled(@)]
    /\ UNCHANGED <<activity, positions>>
    /\ ChainFrame

\* findOneAndUpdate resolves: the next one is issued, or the callback ends
UpsertResolved(w) ==
    /\ chain[w].pc = "upsert"
    /\ positions' = [positions EXCEPT ![w] = Upsert(@, Head(chain[w].queue))]
    /\ chain' = [chain EXCEPT ![w] =
                    IF Len(@.queue) > 1 THEN [@ EXCEPT !.queue = Tail(@.queue)]
                    ELSE Settled([@ EXCEPT !.positions = <<>>, !.queue = <<>>])]
    /\ UNCHANGED <<subscribedAssets, sockets, activity>>
    /\ ChainFrame

\* the awaited fetch, lookup, save or upsert of wallet w rejects
ChainStepFails(w) ==
    /\ chain[w].pc \in {"fetchActivity", "findOne", "save", "fetchPositions", "upsert"}
    /\ chain' = [chain EXCEPT ![w] = Caught(@)]
    /\ UNCHANGED <<subscribedAssets, sockets, activity, positions>>
    /\ ChainFrame

\* mutant: the cycle ends as soon as one callback has settled
CycleEnd_firstSettled ==
    /\ mainPc = "polling"
    /\ \E w \in Wallets : chain[w].pc = "settled"
    /\ mainPc' = IF ~isRunning THEN "stopped" ELSE "delay"
    /\ chain' = [w \in Wallets |-> IdleChain]
    /\ UNCHANGED <<isRunning, ws, sockets, reconnectTimers, pingInterval, pingTimers,
                   connectAttempts, subscribedAssets, mainIdx, isFirstRun,
                   activity, positions, bookVars>>

\* await Promise.all(fetchPromises) settles: it fulfils when every callback
\* has, and rejects as soon as one does; then if (!isRunning) break, else
\* the inter-cycle delay starts
CycleEnd ==
    /\ mainPc = "polling"
    /\ \/ \A w \in Wallets : chain[w].pc = "settled"
       \/ \E w \in Wallets : chain[w].pc = "rejected"
    /\ mainPc' = IF \E w \in Wallets : chain[w].pc = "rejected" THEN "pollRejected"
                 ELSE IF ~isRunning THEN "stopped"
                 ELSE "delay"
    /\ chain' = IF \E w \in Wallets : chain[w].pc = "rejected" THEN chain
                ELSE [w \in Wallets |-> IdleChain]
    /\ UNCHANGED <<isRunning, ws, sockets, reconnectTimers, pingInterval, pingTimers,
                   connectAttempts, subscribedAssets, mainIdx, isFirstRun,
                   activity, positions>>
    /\ UNCHANGED bookVars

\* the FAST_POLL_INTERVAL_MS timer runs: the loop test, then the next cycle
DelayElapsed ==
    /\ mainPc = "delay"
    /\ EnterLoop
    /\ UNCHANGED <<isRunning, ws, sockets, reconnectTimers, pingInterval, pingTimers,
                   connectAttempts, subscribedAssets, mainIdx, isFirstRun,
                   activity, positions>>
    /\ UNCHANGED bookVars

(* ----------------------------- specification --------------------------- *)
InitFeed ==
    /\ isRunning = TRUE
    /\ ws = 0
    /\ sockets = <<>>
    /\ reconnectTimers = 0
    /\ pingInterval = FALSE
    /\ pingTimers = 0
    /\ connectAttempts = 0
    /\ subscribedAssets = <<>>
    /\ mainPc = "start"

InitBook ==
    /\ orderBookCache = << >>
    /\ now = 0
    /\ result = NoResult

InitPoll ==
    /\ mainIdx = 1
    /\ isFirstRun = TRUE
    /\ chain = [w \in Wallets |-> IdleChain]
    /\ activity = InitialActivity
    /\ positions = [w \in Wallets |-> <<>>]

Init == InitFeed /\ InitBook /\ InitPoll

NextFeed ==
    \/ Start
    \/ ReconnectTimerFire
    \/ \E i \in 1..MaxAttempts : WsOpen(i)
    \/ PingTick
    \/ \E i \in 1..MaxAttempts : WsError(i)
    \/ \E i \in 1..MaxAttempts : WsPeerClose(i)
    \/ \E i \in 1..MaxAttempts : WsClose(i)
    \/ stopWsTradeMonitor
    \/ \E assetIds \in SeqsUpTo(Assets, MaxIds) : Track(assetIds)

SpecFeed == Init /\ [][NextFeed]_vars

\* the first connection and the messages it delivers
NextBook ==
    \/ Start
    \/ \E i \in 1..MaxAttempts : WsOpen(i)
    \/ \E i \in 1..MaxAttempts : WsClose(i)
    \/ WsMessageBook
    \/ WsMessagePriceChange
    \/ WsMessageTrade
    \/ WsMessageIgnored

SpecBook == Init /\ [][NextBook]_vars

\* the first connection, the clock and the readers of the cache
NextRead ==
    \/ Start
    \/ \E i \in 1..MaxAttempts : WsOpen(i)
    \/ \E i \in 1..MaxAttempts : WsClose(i)
    \/ WsMessageCoarse
    \/ Tick
    \/ \E assetId \in Assets, maxAgeMs \in 0..(MaxNow + 1) : ReadOrderBook(assetId, maxAgeMs)

SpecRead == Init /\ [][NextRead]_vars

\* connections that fail and are made again, the messages they deliver, the
\* clock and the readers of the cache
NextReconnect ==
    \/ Start
    \/ ReconnectTimerFire
    \/ \E i \in 1..MaxAttempts : WsOpen(i)
    \/ \E i \in 1..MaxAttempts : WsClose(i)
    \/ WsMessageCoarse
    \/ WsMessageMalformed
    \/ Tick
    \/ \E assetId \in Assets, maxAgeMs \in 0..(MaxNow + 1) : ReadOrderBook(assetId, maxAgeMs)

SpecReconnect == Init /\ [][NextReconnect]_vars

\* the monitor from start to stop: startup, the poll loop, the wallets' callbacks
NextPoll ==
    \/ Start
    \/ stopWsTradeMonitor
    \/ \E resp \in PollPositionResponses, ok \in BOOLEAN : InitTraderSubscription(resp, ok)
    \/ BulkMark
    \/ BulkMarkFails
    \/ \E w \in Wallets, resp \in ActivityResponses, sampled \in BOOLEAN :
          ActivityFetched(w, resp, sampled)
    \/ \E w \in Wallets, sampled \in BOOLEAN : FindOneResolved(w, sampled)
    \/ \E w \in Wallets, sampled \in BOOLEAN : SaveResolved(w, sampled)
    \/ \E w \in Wallets, resp \in PollPositionResponses : PositionsFetched(w, resp)
    \/ \E w \in Wallets : UpsertResolved(w)
    \/ \E w \in Wallets : ChainStepFails(w)
    \/ CycleEnd
    \/ DelayElapsed

SpecPoll == Init /\ [][NextPoll]_vars

\* the poll loop with the position refresh: what the exchange reports for a
\* wallet changes from one refresh to the next
NextSync ==
    \/ Start
    \/ \E resp \in PollPositionResponses, ok \in BOOLEAN : InitTraderSubscription(resp, ok)
    \/ BulkMark
    \/ \E w \in Wallets, resp \in SyncActivityResponses, sampled \in BOOLEAN :
          ActivityFetched(w, resp, sampled)
    \/ \E w \in Wallets, sampled \in BOOLEAN : FindOneResolved(w, sampled)
    \/ \E w \in Wallets, sampled \in BOOLEAN : SaveResolved(w, sampled)
    \/ \E w \in Wallets, resp \in ExchangePositionResponses : PositionsFetched(w, resp)
    \/ \E w \in Wallets : UpsertResolved(w)
    \/ \E w \in Wallets : ChainStepFails(w)
    \/ CycleEnd
    \/ DelayElapsed

SpecSync == Init /\ [][NextSync]_vars

\* the exchange's report of each wallet's holdings, when it has stopped
\* changing: w1 holds A, w2 holds B
Reported ==
    [w \in Wallets |->
        IF w = "w1" THEN <<[asset |-> "A", conditionId |-> "M1", size |-> 2]>>
        ELSE <<[asset |-> "B", conditionId |-> "M1", size |-> 1]>>]

\* the position stores as the process finds them: w1's holds a holding in B
\* written by an earlier run, w2's holds nothing
StoredPositions ==
    [w \in Wallets |->
        IF w = "w1" THEN <<[asset |-> "B", conditionId |-> "M1", size |-> 1]>>
        ELSE <<>>]

InitReported ==
    /\ InitFeed
    /\ InitBook
    /\ mainIdx = 1
    /\ isFirstRun = TRUE
    /\ chain = [w \in Wallets |-> IdleChain]
    /\ activity = InitialActivity
    /\ positions = StoredPositions

\* wsTradeMonitor() up to its poll loop
Startup ==
    \/ Start
    \/ \E ok \in BOOLEAN : InitTraderSubscription(Reported[WalletOrder[mainIdx]], ok)
    \/ BulkMark

\* the next step of wallet w's callback when the exchange reports Reported
ReportedStep(w) ==
    \/ \E resp \in SyncActivityResponses, sampled \in BOOLEAN : ActivityFetched(w, resp, sampled)
    \/ \E sampled \in BOOLEAN : FindOneResolved(w, sampled)
    \/ \E sampled \in BOOLEAN : SaveResolved(w, sampled)
    \/ PositionsFetched(w, Reported[w])
    \/ UpsertResolved(w)
    \/ ChainStepFails(w)

\* Math.random() < 0.2 comes out true at the end of wallet w's trade loop
Sampled(w) ==
    /\ \/ \E resp \in SyncActivityResponses : ActivityFetched(w, resp, TRUE)
       \/ FindOneResolved(w, TRUE)
       \/ SaveResolved(w, TRUE)
    /\ chain'[w].pc = "fetchPositions"

\* wallet w's activity fetch resolves with a list that is not empty, and a
\* lookup or a save of its trade loop resolves
TradesFetched(w) ==
    \E resp \in SyncActivityResponses \ {<<>>}, sampled \in BOOLEAN :
        ActivityFetched(w, resp, sampled)
TradeStored(w) ==
    \E sampled \in BOOLEAN : FindOneResolved(w, sampled) \/ SaveResolved(w, sampled)

NextReported ==
    \/ Startup
    \/ \E w \in Wallets : ReportedStep(w)
    \/ CycleEnd
    \/ DelayElapsed

SpecReported == InitReported /\ [][NextReported]_vars

\* fair sampling and successful fetches: startup and every callback go on,
\* each wallet's activity fetch succeeds again and again with the wallet's
\* trades, its lookups and saves succeed again and again, a wallet whose
\* trade loop ends again and again is sampled again and again, and its
\* positions fetch and its upserts succeed again and again
FairSpecReported ==
    /\ SpecReported
    /\ WF_vars(Startup)
    /\ WF_vars(CycleEnd)
    /\ WF_vars(DelayElapsed)
    /\ \A w \in Wallets :
          /\ WF_vars(ReportedStep(w))
          /\ SF_vars(TradesFetched(w))
          /\ SF_vars(TradeStored(w))
          /\ SF_vars(Sampled(w))
          /\ SF_vars(PositionsFetched(w, Reported[w]))
          /\ SF_vars(UpsertResolved(w))

\* fairness of the event loop: a due reconnect timer runs, and a socket
\* that has started closing emits 'close'
WsFinishClose ==
    \E i \in 1..MaxAttempts :
        /\ i \in 1..Len(sockets)
        /\ sockets[i].readyState = "CLOSING"
        /\ WsClose(i)

FairSpecFeed ==
    SpecFeed /\ WF_vars(ReconnectTimerFire) /\ WF_vars(WsFinishClose)

\* the next step of wallet w's callback, whatever its awaited call settles to
ChainStep(w) ==
    \/ \E resp \in ActivityResponses, sampled \in BOOLEAN : ActivityFetched(w, resp, sampled)
    \/ \E sampled \in BOOLEAN : FindOneResolved(w, sampled)
    \/ \E sampled \in BOOLEAN : SaveResolved(w, sampled)
    \/ \E resp \in PollPositionResponses : PositionsFetched(w, resp)
    \/ UpsertResolved(w)
    \/ ChainStepFails(w)

\* fairness of the poller: every awaited fetch and store call settles, the
\* continuation of Promise.all runs, and the inter-cycle timer fires
FairSpecPoll ==
    /\ SpecPoll
    /\ \A w \in Wallets : WF_vars(ChainStep(w))
    /\ WF_vars(CycleEnd)
    /\ WF_vars(DelayElapsed)

(* ------------------------------- claims -------------------------------- *)
\* the subscription messages a step appended to socket i
NewlySent(i) ==
    SubSeq(sockets'[i].outbox, Len(sockets[i].outbox) + 1, Len(sockets'[i].outbox))

Occurrences(s, x) == Cardinality({k \in 1..Len(s) : s[k] = x})

\* C6 (as stated): subscribeToAssets(ids) adds to the known set exactly the
\* ids not already in it; when the connection is open it sends one
\* subscription message holding exactly the newly added ids, each once and
\* none already known, and it sends nothing when no id is new or the
\* connection is not open.
C6_TrackForwardsExactlyNewOnce ==
    [][\A assetIds \in SeqsUpTo(Assets, MaxIds) :
         Track(assetIds) =>
           LET added == Range(assetIds) \ Range(subscribedAssets)
               open  == ws # 0 /\ sockets[ws].readyState = "OPEN"
           IN /\ Range(subscribedAssets') = Range(subscribedAssets) \cup added
              /\ \A i \in 1..Len(sockets) :
                    IF i = ws /\ open /\ added # {}
                    THEN /\ Len(NewlySent(i)) = 1
                         /\ Range(NewlySent(i)[1].assets_ids) = added
                         /\ \A id \in added :
                               Occurrences(NewlySent(i)[1].assets_ids, id) = 1
                    ELSE NewlySent(i) = <<>>]_vars

\* C7: whenever a connection is open, every id of the known set has been
\* written to it in a subscription message: ids registered while no
\* connection was open were sent by the open handler, later ones by
\* subscribeToAssets.
C7_NoSubscriptionLost ==
    \A i \in 1..Len(sockets) :
        sockets[i].readyState = "OPEN" => Range(subscribedAssets) \subseteq SentIds(sockets[i])

\* a second connection is open and carries an id the first one never got
C7_Witness ==
    /\ Len(sockets) >= 2
    /\ sockets[2].readyState = "OPEN"
    /\ \E id \in Range(subscribedAssets) :
          /\ id \notin SentIds(sockets[1])
          /\ id \in SentIds(sockets[2])

\* C8: once stopWsTradeMonitor() has run, no step constructs a socket or
\* gets past the isRunning check of connectWebSocket, and isRunning stays
\* false.
C8_NoConnectAfterStop ==
    [][~isRunning =>
         /\ ~isRunning'
         /\ Len(sockets') = Len(sockets)
         /\ connectAttempts' = connectAttempts]_vars

\* the first attempt threw and scheduled a retry, the monitor was stopped,
\* and the retry timer then ran without connecting
C8_Witness ==
    /\ ~isRunning
    /\ connectAttempts = 1
    /\ sockets = <<>>
    /\ reconnectTimers = 0

\* the connection the program last made has failed: its socket is closing
\* after an error or a close frame, or its close handler has run
ConnectionFailed ==
    /\ connectAttempts >= 1
    /\ \/ ws = 0
       \/ ws # 0 /\ sockets[ws].readyState \in {"CLOSING", "CLOSED"}

\* C9: while the monitor is running, every failure of the connection is
\* followed by a further connection attempt, for each failure in turn.
C9_ReconnectsWhileRunning ==
    \A n \in 1..(MaxAttempts - 1) :
        (ConnectionFailed /\ isRunning /\ connectAttempts = n)
            ~> (connectAttempts > n \/ ~isRunning)

\* two connections have failed and a third attempt is under way
C9_Witness ==
    /\ isRunning
    /\ connectAttempts = 3
    /\ Len(sockets) = 3
    /\ sockets[1].readyState = "CLOSED"
    /\ sockets[2].readyState = "CLOSED"
    /\ Live(sockets[3])

(* ------------------------- order-book claims --------------------------- *)
\* C3: getCachedOrderBook(assetId, maxAgeMs) returns the asset's cached
\* book when now - timestamp < maxAgeMs, and null when the entry is at
\* least maxAgeMs old or the asset has no entry.
C3_FreshRead ==
    result.op = "getCachedOrderBook" =>
        LET a == result.assetId
            fresh == a \in DOMAIN orderBookCache
                     /\ now - orderBookCache[a].timestamp < result.maxAgeMs
        IN /\ fresh => result.value = <<orderBookCache[a]>>
           /\ ~fresh => result.value = <<>>

\* a read one tick after the last write, with a larger age bound, returned
\* the written ladders
C3_Witness ==
    /\ result.op = "getCachedOrderBook"
    /\ result.maxAgeMs = 2
    /\ result.assetId \in DOMAIN orderBookCache
    /\ now - orderBookCache[result.assetId].timestamp = 1
    /\ result.value # <<>>
    /\ result.value[1].bids = <<Level("0.5", "10")>>

\* the ladder a change is applied to, and the other one
AffectedSide(book, change) == IF change.side = "BUY" THEN book.bids ELSE book.asks
OppositeSide(book, change) == IF change.side = "BUY" THEN book.asks ELSE book.bids

\* C4: a price_change message with one change (side, price, size): with
\* size 0 the affected ladder has no entry at that price afterwards, with
\* size > 0 it has exactly one, carrying the new size; the entries at other
\* prices of that side and the whole opposite side are as before.
C4_PriceChangeApplied ==
    [][(result'.op = "price_change" /\ result'.count = 1
        /\ <<orderBookCache, result>>' # <<orderBookCache, result>>) =>
         LET a == result'.assetId
             c == result'.change
             before == Existing(orderBookCache, a)
             after == orderBookCache'[a]
             at == {k \in 1..Len(AffectedSide(after, c)) :
                       AffectedSide(after, c)[k].price = c.price}
         IN /\ parseFloat(c.size) = 0 => at = {}
            /\ parseFloat(c.size) > 0 =>
                  /\ Cardinality(at) = 1
                  /\ \A k \in at : AffectedSide(after, c)[k].size = c.size
            /\ \A e \in Range(AffectedSide(before, c)) \cup Range(AffectedSide(after, c)) :
                  e.price # c.price =>
                     Occurrences(AffectedSide(after, c), e)
                        = Occurrences(AffectedSide(before, c), e)
            /\ OppositeSide(after, c) = OppositeSide(before, c)]_vars

\* a BUY change at 0.5 with size 0 has emptied the bid at 0.5 and left the
\* bid at 0.3 and the asks alone
C4_Witness ==
    /\ result.op = "price_change"
    /\ result.count = 1
    /\ result.change = [side |-> "BUY", price |-> "0.5", size |-> "0"]
    /\ orderBookCache["A"].bids = <<Level("0.3", "10")>>
    /\ orderBookCache["A"].asks = <<Level("0.5", "10")>>

Ascending(ladder) ==
    \A j, k \in 1..Len(ladder) :
        j < k => parseFloat(ladder[j].price) <= parseFloat(ladder[k].price)
Descending(ladder) ==
    \A j, k \in 1..Len(ladder) :
        j < k => parseFloat(ladder[j].price) >= parseFloat(ladder[k].price)

\* C5 (as stated): after a price_change message the side it changed is
\* sorted by numeric price, asks ascending and bids descending.
C5_SidesSortedAfterChange ==
    result.op = "price_change" =>
        LET book == orderBookCache[result.assetId]
        IN IF result.change.side = "BUY"
           THEN Descending(book.bids)
           ELSE Ascending(book.asks)

(* ---------------------------- poller claims ---------------------------- *)
\* the documents of docs with transaction identifier h
TxCount(docs, h) == Cardinality({k \in 1..Len(docs) : docs[k].transactionHash = h})

\* the documents of docs that record entry e
EntryCount(docs, e) ==
    Cardinality({k \in 1..Len(docs) :
        /\ docs[k].transactionHash = e.transactionHash
        /\ docs[k].timestamp = e.timestamp
        /\ docs[k].asset = e.asset})

\* wallet w's callback has just finished the loop iteration of its entry
\* without an error: the lookup found a document, or the save resolved
IterationDone(w) ==
    /\ chain[w].pc \in {"findOne", "save"}
    /\ chain'[w] # chain[w]
    /\ ~chain'[w].failed
    /\ ~(chain[w].pc = "findOne" /\ chain'[w].pc = "save")

\* C1: a wallet's activity log never holds two documents with one
\* transaction identifier, whatever the responses repeat; once an entry at
\* or above the cutoff has been processed without error the log holds
\* exactly one document with its identifier, and no document is ever removed.
C1_IdempotentIngestion ==
    /\ [](\A w \in Wallets, h \in TxHashes : TxCount(activity[w], h) <= 1)
    /\ [][\A w \in Wallets :
            IterationDone(w) =>
               TxCount(activity'[w], chain[w].activities[chain[w].i].transactionHash) = 1]_vars
    /\ [][\A w \in Wallets, h \in TxHashes :
            TxCount(activity'[w], h) >= TxCount(activity[w], h)]_vars

\* w2's response repeats T1: the first occurrence has been saved, the
\* lookup for the second is in flight, and the log holds T1 once
C1_Witness ==
    /\ chain["w2"].pc = "findOne"
    /\ chain["w2"].i = 2
    /\ chain["w2"].activities[1] = chain["w2"].activities[2]
    /\ TxCount(activity["w2"], chain["w2"].activities[2].transactionHash) = 1

\* C2: no step adds a document for an entry whose timestamp is below the
\* cutoff, and a step of a wallet's trade loop registers no asset id but
\* that of the entry it has just saved, whose timestamp is not below it.
C2_OldNeverPersisted ==
    [][\A w \in Wallets :
         /\ \A e \in ActivityEntries :
               e.timestamp < TOO_OLD_TIMESTAMP =>
                  EntryCount(activity'[w], e) = EntryCount(activity[w], e)
         /\ (chain[w].pc \in {"fetchActivity", "findOne", "save"} /\ chain'[w] # chain[w]) =>
               \A id \in Range(subscribedAssets') \ Range(subscribedAssets) :
                  /\ chain[w].pc = "save"
                  /\ id = chain[w].activities[chain[w].i].asset
                  /\ chain[w].activities[chain[w].i].timestamp >= TOO_OLD_TIMESTAMP]_vars

\* w2's response began with an entry below the cutoff: the loop is past it,
\* the log holds no document with its identifier and its asset is not known
C2_Witness ==
    /\ chain["w2"].pc = "findOne"
    /\ chain["w2"].i = 2
    /\ chain["w2"].activities[1].timestamp < TOO_OLD_TIMESTAMP
    /\ TxCount(activity["w2"], chain["w2"].activities[1].transactionHash) = 0
    /\ chain["w2"].activities[1].asset \notin Range(subscribedAssets)

\* C10: no wallet's callback ever rejects and the poll cycle never fails;
\* a cycle ends only when every wallet's callback has settled, the failed
\* ones included.
C10_FailureIsolated ==
    /\ [](mainPc # "pollRejected" /\ \A w \in Wallets : chain[w].pc # "rejected")
    /\ [][(mainPc = "polling" /\ mainPc' # "polling") =>
             \A w \in Wallets : chain[w].pc = "settled"]_vars

\* w1's callback has failed, and w2's has run through a save and an upsert
\* to its end in the same cycle
C10_Witness ==
    /\ mainPc = "polling"
    /\ chain["w1"].pc = "settled" /\ chain["w1"].failed
    /\ chain["w2"].pc = "settled" /\ ~chain["w2"].failed
    /\ TxCount(activity["w2"], "T2") = 1
    /\ positions["w2"] # <<>>

(* ---------------------------- startup claims --------------------------- *)
\* the documents the poller has appended to wallet w's log in this run
PollerDocs(w) ==
    {k \in 1..Len(activity[w]) : k > Len(InitialActivity[w])}

\* C11: the bulk mark runs while isFirstRun is set and only then, it is
\* over before any wallet's callback starts, each of its updates leaves no
\* unprocessed document in the wallet's log, and a document the poller has
\* saved keeps bot = false and botExcutedTime = 0 for ever.
C11_BulkMarkOnceBeforePolling ==
    /\ [](mainPc = "bulkMark" => isFirstRun)
    /\ []((mainPc \in {"polling", "delay"} \/ \E w \in Wallets : chain[w].pc # "idle")
            => ~isFirstRun)
    /\ [](~isFirstRun =>
            \A w \in Wallets : \A k \in 1..Len(InitialActivity[w]) :
                activity[w][k].bot = TRUE)
    /\ [](\A w \in Wallets : \A k \in PollerDocs(w) :
            activity[w][k].bot = FALSE /\ activity[w][k].botExcutedTime = 0)
    /\ [][/\ isFirstRun' => isFirstRun
          /\ \A w \in Wallets :
                (\E k \in 1..Len(activity[w]) : activity'[w][k].bot # activity[w][k].bot)
                   => /\ mainPc = "bulkMark" /\ isFirstRun
                      /\ w = WalletOrder[mainIdx]
                      /\ \A k \in 1..Len(activity'[w]) : activity'[w][k].bot = TRUE]_vars

\* the bulk mark has processed w1's old document, and the poller has since
\* saved a trade of w1 that stays unprocessed
C11_Witness ==
    /\ ~isFirstRun
    /\ Len(activity["w1"]) = 2
    /\ activity["w1"][1].bot = TRUE /\ activity["w1"][1].botExcutedTime = 999
    /\ activity["w1"][2].bot = FALSE /\ activity["w1"][2].botExcutedTime = 0
    /\ mainPc = "delay"

\* C12: stopWsTradeMonitor() touches no wallet's callback, the cycle in
\* flight ends only when every callback has settled, no cycle starts once
\* isRunning is false, and a poll loop whose awaited calls all settle
\* reaches its end after the stop.
C12_StopEndsLoopAfterCycle ==
    /\ [][(isRunning /\ ~isRunning') =>
            /\ chain' = chain /\ mainPc' = mainPc
            /\ activity' = activity /\ positions' = positions]_vars
    /\ [][~isRunning =>
            /\ ~(mainPc # "polling" /\ mainPc' = "polling")
            /\ \A w \in Wallets : chain[w].pc = "idle" => chain'[w].pc = "idle"]_vars
    /\ [][(mainPc = "polling" /\ mainPc' = "stopped") =>
            \A w \in Wallets : chain[w].pc = "settled"]_vars
    /\ (~isRunning /\ mainPc \in {"polling", "delay"}) ~> (mainPc = "stopped")

\* the monitor has been stopped, its socket is closing, and the cycle in
\* flight has run every callback to its end, w2's with a trade saved
C12_Witness ==
    /\ ~isRunning
    /\ mainPc = "polling"
    /\ ws = 0
    /\ Len(sockets) = 1 /\ sockets[1].readyState = "CLOSING"
    /\ \A w \in Wallets : chain[w].pc = "settled"
    /\ ~chain["w2"].failed
    /\ TxCount(activity["w2"], "T2") = 1

(* --------------------------- position claims --------------------------- *)
\* the documents of docs with the key (asset, conditionId) of p
KeyHits(docs, p) ==
    {k \in 1..Len(docs) : docs[k].asset = p.asset /\ docs[k].conditionId = p.conditionId}

\* wallet w's last upsert of a refresh resolves
RefreshCompletes(w) ==
    /\ chain[w].pc = "upsert"
    /\ chain'[w].pc = "settled"
    /\ ~chain'[w].failed

StoreMatchesReport(w) ==
    /\ Len(positions[w]) = Len(Reported[w])
    /\ Range(positions[w]) = Range(Reported[w])

\* C13 (as stated): once the exchange's report of a wallet's holdings has
\* stopped changing, the wallet's store comes to hold exactly the reported
\* holdings, and stays so.
C13_StoreConvergesToReport ==
    \A w \in Wallets : <>[]StoreMatchesReport(w)

\* w2's store, which held no holding the exchange has dropped, does converge
W2_StoreConverges == <>[]StoreMatchesReport("w2")

(* ------------------------ cache lifetime claims ------------------------ *)
\* the ladder entries a read returns
LaddersRead(value) ==
    IF value = <<>> THEN {} ELSE Range(value[1].asks) \cup Range(value[1].bids)

\* C15 (as stated): when a connection made after the first one opens, no
\* message has yet arrived on it, so a read of the cache, for any asset and
\* any age bound, returns no ladder entry.
C15_CacheRebuiltOnReconnect ==
    [][\A i \in 2..MaxAttempts :
         WsOpen(i) =>
            \A assetId \in Assets, maxAgeMs \in 0..(MaxNow + 1) :
               LaddersRead(getCachedOrderBook(orderBookCache', now', assetId, maxAgeMs))
                  = {}]_vars

\* C18 (as stated): a message whose handling throws leaves the cache as it
\* was, ladders and timestamps alike.
C18_MalformedMessageIgnored ==
    [][\A i \in 1..MaxAttempts, msg \in MalformedMsgs :
         WsMessage(i, msg) => orderBookCache' = orderBookCache]_vars

(* ------------------------ subscription set claim ----------------------- *)
\* C16: no step removes an id from the known set, be it a registration, an
\* open, a close, an error, a reconnect or the stop.
C16_KnownSetMonotonic ==
    [][Range(subscribedAssets) \subseteq Range(subscribedAssets')]_vars

\* both ids are known after two connections have closed and the monitor has
\* been stopped
C16_Witness ==
    /\ ~isRunning
    /\ Range(subscribedAssets) = Assets
    /\ Len(sockets) = 2
    /\ sockets[1].readyState = "CLOSED"
    /\ sockets[2].readyState = "CLOSED"

(* -------------------------- trade loop claims -------------------------- *)
\* the entry wallet w's trade loop is at
CurrentEntry(w) == chain[w].activities[chain[w].i]

\* a step of wallet w's callback in its trade loop
TradeLoopStep(w) ==
    /\ chain[w].pc \in {"fetchActivity", "findOne", "save"}
    /\ chain'[w] # chain[w]

\* C17: a save is issued only by the step in which the lookup of the entry
\* resolved without a match; a document enters a log only in the step in
\* which the save of its entry resolves; and the trade loop registers an
\* asset id only in that same step, as the id of the entry just saved, so
\* never for a duplicate and never when the lookup or the save failed.
C17_LookupThenSaveThenRegister ==
    [][\A w \in Wallets :
         /\ (chain'[w].pc = "save" /\ chain[w].pc # "save") =>
               /\ chain[w].pc = "findOne"
               /\ findOne(activity[w], CurrentEntry(w).transactionHash) = <<>>
               /\ activity' = activity
               /\ subscribedAssets' = subscribedAssets
         /\ Len(activity'[w]) > Len(activity[w]) =>
               /\ chain[w].pc = "save"
               /\ activity'[w] = Append(activity[w], NewActivity(CurrentEntry(w)))
         /\ (TradeLoopStep(w) /\ subscribedAssets' # subscribedAssets) =>
               /\ chain[w].pc = "save"
               /\ ~chain'[w].failed
               /\ activity'[w] = Append(activity[w], NewActivity(CurrentEntry(w)))
               /\ Range(subscribedAssets') \ Range(subscribedAssets)
                     = {CurrentEntry(w).asset}]_vars

\* w1's loop has passed over a duplicate of its recorded trade without
\* registering its asset, while w2's new trade is saved and its asset known
C17_Witness ==
    /\ chain["w1"].pc = "findOne"
    /\ chain["w1"].i = 2
    /\ chain["w1"].activities[1].transactionHash = "T1"
    /\ ~TooOld(chain["w1"].activities[1])
    /\ "A" \notin Range(subscribedAssets)
    /\ TxCount(activity["w2"], "T2") = 1
    /\ "B" \in Range(subscribedAssets)

\* the trade fields of a document
TradeFields(d) ==
    [transactionHash |-> d.transactionHash, timestamp |-> d.timestamp, asset |-> d.asset]

\* C19: no step removes a document or changes the trade fields of one; a
\* document changes only in the bulk mark, and a poll cycle that meets its
\* transaction identifier again leaves it as it is.
C19_TradeFieldsImmutable ==
    [][\A w \in Wallets :
         /\ Len(activity'[w]) >= Len(activity[w])
         /\ \A k \in 1..Len(activity[w]) :
               /\ TradeFields(activity'[w][k]) = TradeFields(activity[w][k])
               /\ activity'[w][k] # activity[w][k] => mainPc = "bulkMark"]_vars

\* the bulk mark has processed w1's recorded trade, and a poll that
\* reported the trade again, with another timestamp, has left the document
\* with the timestamp it was recorded with
C19_Witness ==
    /\ chain["w1"].pc = "findOne"
    /\ chain["w1"].i = 2
    /\ chain["w1"].activities[1].transactionHash = "T1"
    /\ chain["w1"].activities[1].timestamp = TOO_OLD_TIMESTAMP
    /\ activity["w1"] = <<ActivityDoc([transactionHash |-> "T1",
                                       timestamp |-> TOO_OLD_TIMESTAMP - 1,
                                       asset |-> "A"], TRUE, 999)>>

\* C20 (as stated): whenever the draw of Math.random() < 0.2 of a wallet's
\* cycle selects the wallet, the wallet's positions are fetched once its
\* trade loop is over, also when the activity fetch returned an empty list.
C20_SampledRefreshIndependentOfTrades ==
    [][\A w \in Wallets, resp \in ActivityResponses :
         (ActivityFetched(w, resp, TRUE) /\ chain'[w].pc # "findOne")
            => chain'[w].pc = "fetchPositions"]_vars

(* --------------------------- poll cycle claim -------------------------- *)
\* C21: a cycle ends only when every wallet's callback has settled; the
\* next one starts only from the end of the startup or of the inter-cycle
\* delay, with no callback left over; a callback starts only with a cycle;
\* and outside a cycle no callback is in flight.
C21_CyclesNeverOverlap ==
    /\ [](mainPc # "polling" => \A w \in Wallets : chain[w].pc = "idle")
    /\ [][(mainPc = "polling" /\ mainPc' # "polling") =>
            /\ \A w \in Wallets : chain[w].pc = "settled"
            /\ mainPc' \in {"delay", "stopped"}]_vars
    /\ [][(mainPc # "polling" /\ mainPc' = "polling") =>
            /\ mainPc \in {"bulkMark", "delay"}
            /\ \A w \in Wallets : chain[w].pc = "idle" /\ chain'[w].pc = "fetchActivity"]_vars
    /\ [][\A w \in Wallets :
            (chain'[w].pc = "fetchActivity" /\ chain[w].pc # "fetchActivity") =>
               (mainPc # "polling" /\ mainPc' = "polling")]_vars

\* a second cycle is under way: w2's trade was saved in an earlier cycle,
\* its new callback awaits the activity fetch, and w1's has settled
C21_Witness ==
    /\ mainPc = "polling"
    /\ TxCount(activity["w2"], "T2") = 1
    /\ chain["w2"].pc = "fetchActivity"
    /\ chain["w1"].pc = "settled"

(* ---------------------- connection resource claim ---------------------- *)
\* the sockets that are connecting or open
LiveSockets == {i \in 1..Len(sockets) : Live(sockets[i])}

\* C22: at most one socket is connecting or open, at most one reconnect
\* timer is pending, never both; at most one heartbeat timer is active,
\* and it is active only while the monitor runs and ws holds a socket whose
\* close handler has not run.
C22_OneConnectionOneTimer ==
    /\ Cardinality(LiveSockets) + reconnectTimers <= 1
    /\ pingTimers \in {0, 1}
    /\ pingInterval <=> pingTimers = 1
    /\ pingTimers = 1 =>
          /\ isRunning
          /\ ws # 0
          /\ sockets[ws].readyState \in {"OPEN", "CLOSING"}

\* the connection pinged and then closed: the heartbeat is gone and the one
\* reconnect timer is pending
C22_Witness ==
    /\ isRunning
    /\ Len(sockets) = 1
    /\ sockets[1].readyState = "CLOSED"
    /\ PingCount(sockets[1]) = 1
    /\ reconnectTimers = 1
    /\ pingTimers = 0

====
